---- MODULE Spec2Model ----
(***************************************************************************)
(* FluxImgGen (src/FluxImgGen/core.py): a chat command that parses a text  *)
(* into prompt / --model= / --size=, resolves the model alias, POSTs an    *)
(* image job, GETs the image and replies with it.                          *)
(*                                                                         *)
(* Python strings are sequences of one-character strings, so that split,   *)
(* join, lower, replace, startswith, re.match and f-strings are computed   *)
(* and not assumed.  The backtick and the apostrophe are written           *)
(* "BACKTICK" and "APOS".                                                  *)
(***************************************************************************)
EXTENDS Integers, Sequences, FiniteSets

(***************************************************************************)
(* Bounds of the model.                                                    *)
(***************************************************************************)
\* number of command invocations that may be in flight together
NumInv == 2
\* largest number of tokens of a command drawn from TokenPool
MaxTokens == 3

(***************************************************************************)
(* Python values.                                                          *)
(***************************************************************************)
\* Optional[str]: None, or a string
None == [some |-> FALSE, v |-> <<>>]
Some(s) == [some |-> TRUE, v |-> s]
\* truthiness of an Optional[str]: None and "" are falsy
Truthy(o) == o.some /\ o.v # <<>>
\* `a or b` on Optional[str] operands
Or(a, b) == IF Truthy(a) THEN a ELSE b

\* dict.get(k): None when the key is absent
Get(d, k) == IF k \in DOMAIN d THEN Some(d[k]) ELSE None

Min(S) == CHOOSE m \in S : \A n \in S : m <= n

\* str.startswith(p)
StartsWith(s, p) == Len(s) >= Len(p) /\ SubSeq(s, 1, Len(p)) = p

\* str.split(c) for a one-character separator: every occurrence separates,
\* empty fields are kept, and the empty string splits into [""]
RECURSIVE Split(_, _)
Split(s, c) ==
    LET idx == {i \in 1..Len(s) : s[i] = c}
    IN  IF idx = {} THEN <<s>>
        ELSE LET k == Min(idx)
             IN  <<SubSeq(s, 1, k - 1)>> \o Split(SubSeq(s, k + 1, Len(s)), c)

\* c.join(parts)
RECURSIVE Join(_, _)
Join(parts, c) ==
    IF parts = <<>> THEN <<>>
    ELSE IF Len(parts) = 1 THEN parts[1]
    ELSE parts[1] \o <<c>> \o Join(Tail(parts), c)

\* str.replace(a, b) for one-character a and b
Replace(s, a, b) == [i \in 1..Len(s) |-> IF s[i] = a THEN b ELSE s[i]]

Upper == <<"A","B","C","D","E","F","G","H","I","J","K","L","M",
           "N","O","P","Q","R","S","T","U","V","W","X","Y","Z">>
LowerOf == <<"a","b","c","d","e","f","g","h","i","j","k","l","m",
             "n","o","p","q","r","s","t","u","v","w","x","y","z">>
LowerChar(c) ==
    IF \E k \in 1..26 : Upper[k] = c
    THEN LowerOf[CHOOSE k \in 1..26 : Upper[k] = c]
    ELSE c
\* str.lower()
Lower(s) == [i \in 1..Len(s) |-> LowerChar(s[i])]

Digits == <<"0","1","2","3","4","5","6","7","8","9">>
IsDigit(c) == \E k \in 1..10 : Digits[k] = c

\* str(n) of a non-negative integer, as an f-string formats it
RECURSIVE Str(_)
Str(n) == IF n < 10 THEN <<Digits[n + 1]>> ELSE Str(n \div 10) \o <<Digits[(n % 10) + 1]>>

\* `sub in s`
Contains(s, sub) ==
    \E k \in 0..(Len(s) - Len(sub)) : SubSeq(s, k + 1, k + Len(sub)) = sub

\* the whole of s is \d+x\d+
DigitsXDigits(s) ==
    \E k \in 2..(Len(s) - 1) :
        /\ s[k] = "x"
        /\ \A j \in 1..(k - 1) : IsDigit(s[j])
        /\ \A j \in (k + 1)..Len(s) : IsDigit(s[j])

\* re.match(r"^\d+x\d+$", s): `$` also matches just before one final newline
ReMatchSize(s) ==
    \/ DigitsXDigits(s)
    \/ Len(s) > 0 /\ s[Len(s)] = "\n" /\ DigitsXDigits(SubSeq(s, 1, Len(s) - 1))

(***************************************************************************)
(* Texts of the program.                                                   *)
(***************************************************************************)
ModelPrefix == <<"-","-","m","o","d","e","l","=">>
SizePrefix == <<"-","-","s","i","z","e","=">>
InvalidSizeMsg == <<"I","n","v","a","l","i","d"," ","s","i","z","e"," ","v","a","l","u","e","."," ","P","l","e","a","s","e"," ","p","r","o","v","i","d","e"," ","a"," ","v","a","l","i","d"," ","r","e","s","o","l","u","t","i","o","n"," ","i","n"," ","t","h","e"," ","f","o","r","m","a","t"," ","APOS","w","i","d","t","h",":","h","e","i","g","h","t","APOS"," ","(","e",".","g",".",","," ","APOS","1","9","2","0","x","1","0","8","0","APOS",")",".">>
SetupMsg == <<"S","e","t","u","p"," ","n","o","t"," ","d","o","n","e","."," ","U","s","e"," ","BACKTICK","s","e","t"," ","a","p","i"," ","f","l","u","x"," ","k","e","y"," ","<","a","p","i","_","k","e","y",">"," ","s","e","t"," ","a","p","i"," ","f","l","u","x"," ","m","o","d","e","l"," ","<","d","e","f","a","u","l","t","_","m","o","d","e","l",">","BACKTICK",","," ","BACKTICK","s","e","t"," ","a","p","i"," ","f","l","u","x"," ","s","i","z","e"," ","<","d","e","f","a","u","l","t","_","s","i","z","e",">","BACKTICK",","," ","a","n","d"," ","BACKTICK","s","e","t"," ","a","p","i"," ","f","l","u","x"," ","e","n","d","p","o","i","n","t"," ","<","b","a","s","e","U","r","l"," ","f","o","r"," ","a","p","i",">","BACKTICK",".">>
GenerationsPath == <<"/","v","1","/","i","m","a","g","e","s","/","g","e","n","e","r","a","t","i","o","n","s">>

\* self.model_mapping as __init__ builds it
ModelMapping ==
    LET T == << <<<<"b","a","s","e">>, <<"f","l","u","x">>>>,
                <<<<"r","e","a","l","i","s","m">>, <<"f","l","u","x","-","r","e","a","l","i","s","m">>>>,
                <<<<"3","d">>, <<"f","l","u","x","-","3","d">>>>,
                <<<<"a","n","i","m","e">>, <<"f","l","u","x","-","a","n","i","m","e">>>>,
                <<<<"d","i","s","n","e","y">>, <<"f","l","u","x","-","d","i","s","n","e","y">>>>,
                <<<<"p","i","x","e","l">>, <<"f","l","u","x","-","p","i","x","e","l">>>>,
                <<<<"4","o">>, <<"f","l","u","x","-","4","o">>>>,
                <<<<"a","n","y","d","a","r","k">>, <<"a","n","y","-","d","a","r","k">>>>,
                <<<<"p","r","o">>, <<"f","l","u","x",".","1",".","1","-","p","r","o","-","u","l","t","r","a">>>>,
                <<<<"s","d","3">>, <<"s","t","a","b","l","e","-","d","i","f","f","u","s","i","o","n","-","3","-","l","a","r","g","e","-","t","u","r","b","o">>>>,
                <<<<"s","d","x","l">>, <<"s","d","x","l","-","l","i","g","h","t","n","i","n","g","-","4","s","t","e","p">>>>,
                <<<<"k","a","n","d","i","n","s","k","y">>, <<"k","a","n","d","i","n","s","k","y","-","3",".","1">>>>,
                <<<<"d","e","l","i","b","e","r","a","t","e","3">>, <<"d","e","l","i","b","e","r","a","t","e","-","v","3">>>>,
                <<<<"r","d","x","l">>, <<"r","e","a","l","d","r","e","a","m","-","x","l">>>>,
                <<<<"j","u","g","g">>, <<"j","u","g","g","e","r","n","a","u","t","-","x","l","-","v","1","0">>>>,
                <<<<"h","a","l","f">>, <<"f","l","u","x","-","h","a","l","f","-","i","l","l","u","s","t","r","a","t","i","o","n">>>>,
                <<<<"r","e","c","r","a","f","t">>, <<"r","e","c","r","a","f","t","-","v","3">>>> >>
    IN  [a \in {T[k][1] : k \in 1..Len(T)} |->
            T[CHOOSE k \in 1..Len(T) : T[k][1] = a][2]]

(***************************************************************************)
(* _gen: the argument loop (lines 157-173).                                *)
(***************************************************************************)
\* arg.split("=")[1] of a --model= token
ModelValue(arg) == Split(arg, "=")[2]

\* arg.split("=")[1] of a --size= token
SizeValue(arg) == Split(arg, "=")[2]

\* the locals of _gen before the loop
ParseStart == [model |-> None, size |-> None, prompt_parts |-> <<>>, rejected |-> FALSE]

\* the loop over args_list; `rejected` is the early return after the
\* invalid-size message, which leaves the rest of the list unread
RECURSIVE ParseLoop(_, _)
ParseLoop(args_list, st) ==
    IF args_list = <<>> THEN st
    ELSE LET arg == Head(args_list)
         IN  IF StartsWith(arg, ModelPrefix)
             THEN ParseLoop(Tail(args_list), [st EXCEPT !.model = Some(ModelValue(arg))])
             ELSE IF StartsWith(arg, SizePrefix)
             THEN LET size == SizeValue(arg)
                  IN  IF ~ReMatchSize(size)
                      THEN [st EXCEPT !.size = Some(size), !.rejected = TRUE]
                      ELSE ParseLoop(Tail(args_list), [st EXCEPT !.size = Some(size)])
             ELSE ParseLoop(Tail(args_list),
                            [st EXCEPT !.prompt_parts = Append(@, arg)])

\* args.split(" ") and the loop
ParseArgs(args) == ParseLoop(Split(args, " "), ParseStart)

\* variant: the empty tokens dropped, as a split on runs of whitespace would
Prompt_SkipEmpty(prompt_parts) ==
    LET NonEmpty(p) == p # <<>>
    IN  Join(SelectSeq(prompt_parts, NonEmpty), " ")

\* " ".join(prompt_parts)
Prompt(prompt_parts) == Join(prompt_parts, " ")

(***************************************************************************)
(* _generate_image and _request (lines 86-121).                            *)
(***************************************************************************)
\* size = size or default_size
EffectiveSize(size, toks) == Or(size, Some(toks["size"])).v

\* variant: a fixed fallback in place of the configured default
EffectiveModel_FixedDefault(model, toks) == Or(model, Some(<<"b","a","s","e">>)).v

\* model = model or default_model
EffectiveModel(model, toks) == Or(model, Some(toks["model"])).v

\* variant: no membership test before the lookup
KnownModel_NoCheck(model, mapping) == TRUE

\* model.lower() in self.model_mapping
KnownModel(model, mapping) == Lower(model) \in DOMAIN mapping

\* variant: the alias sent as it was typed
BackendModel_Alias(model, mapping) == model

\* self.model_mapping.get(model.lower(), model)
BackendModel(model, mapping) ==
    IF Lower(model) \in DOMAIN mapping THEN mapping[Lower(model)] ELSE model

\* f"Model `{model}` does not exist."
UnknownModelText(model) == <<"M","o","d","e","l"," ","BACKTICK">> \o model \o <<"BACKTICK"," ","d","o","e","s"," ","n","o","t"," ","e","x","i","s","t",".">>

\* the JSON body of the POST
RequestData(prompt, model, size) ==
    [prompt |-> prompt, n |-> 1, size |-> size, response_format |-> <<"u","r","l">>,
     model |-> model]

\* f"Bearer {key}" with key = self.tokens.get("key")
AuthHeader(toks) ==
    LET key == Get(toks, "key")
    IN  <<"B","e","a","r","e","r"," ">> \o (IF key.some THEN key.v ELSE <<"N","o","n","e">>)

\* f"{baseUrl}/v1/images/generations"
PostUrl(baseUrl) == baseUrl \o GenerationsPath

\* response.ok: the status is below 400
ResponseOk(status) == status < 400

\* f"Error?: {response.status}"
StatusErrorText(status) == <<"E","r","r","o","r","?",":"," ">> \o Str(status)

(***************************************************************************)
(* Replies (lines 123-127, 168, 178-198).                                  *)
(***************************************************************************)
NoFiles == <<>>

\* ctx.send(<invalid size text>)
InvalidSizeReply ==
    [content |-> InvalidSizeMsg, embed |-> None, files |-> NoFiles,
     reference |-> FALSE, replied_user |-> TRUE]

\* ctx.send(f"Something went wrong...\n{e}", reference=..., allowed_mentions=...)
DiffusionErrorReply(text) ==
    [content |-> <<"S","o","m","e","t","h","i","n","g"," ","w","e","n","t"," ","w","r","o","n","g",".",".",".","\n">> \o text, embed |-> None,
     files |-> NoFiles, reference |-> TRUE, replied_user |-> FALSE]

\* ctx.send(f"Error?: `{e.status}`\n{e.message}", reference=..., allowed_mentions=...)
HttpErrorReply(status, message) ==
    [content |-> <<"E","r","r","o","r","?",":"," ","BACKTICK">> \o Str(status) \o <<"BACKTICK","\n">> \o message, embed |-> None,
     files |-> NoFiles, reference |-> TRUE, replied_user |-> FALSE]

\* variant: the prompt used as the name without the replacement
FileName_NoReplace(prompt) == prompt \o <<".","p","n","g">>

\* prompt.replace(' ', '_') + ".png"
FileName(prompt) == Replace(prompt, " ", "_") \o <<".","p","n","g">>

\* _image_to_file
ImageToFile(image_data, prompt) == [bytes |-> image_data, filename |-> FileName(prompt)]

\* f"Prompt: {prompt}; Model: {model if model else self.tokens.get('model')};"
Description(prompt, model, toks) ==
    LET shown == IF Truthy(model) THEN model ELSE Get(toks, "model")
    IN  <<"P","r","o","m","p","t",":"," ">> \o prompt \o <<";"," ","M","o","d","e","l",":"," ">>
            \o (IF shown.some THEN shown.v ELSE <<"N","o","n","e">>) \o <<";">>

\* ctx.send(embed=..., file=file)
SuccessReply(image_data, prompt, model, toks) ==
    [content |-> <<>>, embed |-> Some(Description(prompt, model, toks)),
     files |-> <<ImageToFile(image_data, prompt)>>,
     reference |-> FALSE, replied_user |-> TRUE]

(***************************************************************************)
(* The environment: the credential store, the commands users type and the  *)
(* answers of the HTTP backend.                                            *)
(***************************************************************************)
Keys == {"model", "size", "endpoint", "key"}

\* values the owner may have stored under each key; "" is a stored empty value
StoredValues ==
    [model |-> {<<>>, <<"A","n","i","m","e">>, <<"b","o","g","u","s">>},
     size |-> {<<>>, <<"2","x","2">>},
     endpoint |-> {<<>>, <<"h","t","t","p",":","/","/","h">>},
     key |-> {<<>>, <<"k">>}]

\* the stored "flux" group: any subset of the keys, each with one of its values
Stores ==
    UNION { {s \in [D -> UNION {StoredValues[k] : k \in Keys}] :
                \A k \in D : s[k] \in StoredValues[k]} : D \in SUBSET Keys }

TokenPool ==
    { <<>>, <<"a">>, <<"c","a","t">>,
      <<"-","-","m","o","d","e","l","=","S","d","X","l">>, <<"-","-","m","o","d","e","l","=","b","o","g","u","s">>, <<"-","-","m","o","d","e","l","=">>,
      <<"-","-","s","i","z","e","=","1","x","1">>, <<"-","-","s","i","z","e","=","1","0","2","4">>, <<"-","-","s","i","z","e","=","w","x","h">>,
      <<"-","-","s","i","z","e","=","1","x","1","=","b">>, <<"-","-","s","i","z","e","=","1","6","x","9","\n">> }

\* the host hands the rest of the message, stripped and not empty, as `args`
Stripped(args) ==
    /\ args # <<>>
    /\ args[1] \notin {" ", "\n"}
    /\ args[Len(args)] \notin {" ", "\n"}

TokenSeqs == UNION {[1..n -> TokenPool] : n \in 1..MaxTokens}

\* every command of at most MaxTokens tokens of the pool
ArgsAll == {a \in {Join(ts, " ") : ts \in TokenSeqs} : Stripped(a)}

\* the commands of the runs through the HTTP calls: every branch of _gen, an
\* empty --model= value, a repeated --model=, and a doubled space
ArgsSmall ==
    { <<"a"," ","c","a","t">>, <<"c","a","t"," ","-","-","m","o","d","e","l","=","S","d","X","l">>, <<"-","-","m","o","d","e","l","=","b","o","g","u","s"," ","c","a","t">>, <<"c","a","t"," ","-","-","s","i","z","e","=","w","x","h">>,
      <<"-","-","s","i","z","e","=","1","x","1"," ","a">>, <<"a"," ","-","-","m","o","d","e","l","="," ","c","a","t">>, <<"-","-","m","o","d","e","l","=","p","r","o"," ","-","-","m","o","d","e","l","=","b","a","s","e"," ","a">>,
      <<"a"," "," ","c","a","t">> }

\* the commands of the concurrent runs
ArgsConc ==
    { <<"a"," ","c","a","t">>, <<"c","a","t"," ","-","-","m","o","d","e","l","=","S","d","X","l">>, <<"-","-","m","o","d","e","l","=","b","o","g","u","s"," ","c","a","t">>, <<"c","a","t"," ","-","-","s","i","z","e","=","w","x","h">> }

ImageUrl == <<"h","t","t","p",":","/","/","i","/","1">>
JsonType == "application/json"
HtmlType == "text/html"

NoOutcome == [kind |-> "none", status |-> 0, ctype |-> "", body |-> "", url |-> <<>>]

\* what session.post may come back with: a response (status, content type,
\* body: JSON with data[0].url, other JSON, malformed JSON, an HTML page),
\* or a connection failure
PostOutcomes ==
    { [kind |-> "response", status |-> st, ctype |-> cb[1], body |-> cb[2],
       url |-> IF cb[2] = "url_json" THEN ImageUrl ELSE <<>>] :
        st \in {200, 201, 404, 500},
        cb \in { <<JsonType, "url_json">>, <<JsonType, "other_json">>,
                 <<JsonType, "malformed">>, <<HtmlType, "html">> } }
    \cup { [NoOutcome EXCEPT !.kind = "conn_error"] }

\* what session.get may come back with: a response of any status, or a failure
GetOutcomes ==
    { [NoOutcome EXCEPT !.kind = "response", !.status = 200, !.body = "PNG1"],
      [NoOutcome EXCEPT !.kind = "response", !.status = 200, !.body = "PNG2"],
      [NoOutcome EXCEPT !.kind = "response", !.status = 404, !.body = "NOTFOUND"],
      [NoOutcome EXCEPT !.kind = "conn_error"] }

\* the answers of the concurrent runs: a success of each call and a failure
\* of each kind
PostOutcomesConc ==
    {out \in PostOutcomes :
        \/ out.status = 200 /\ out.body = "url_json"
        \/ out.status = 500 /\ out.body \in {"html", "other_json"}
        \/ out.kind = "conn_error"}

GetOutcomesConc ==
    {out \in GetOutcomes : out.kind = "conn_error" \/ out.body = "PNG1"}

\* ContentTypeError.message of response.json()
MimeTypeMsg == <<"A","t","t","e","m","p","t"," ","t","o"," ","d","e","c","o","d","e"," ","J","S","O","N"," ","w","i","t","h"," ","u","n","e","x","p","e","c","t","e","d"," ","m","i","m","e","t","y","p","e",":"," ","t","e","x","t","/","h","t","m","l">>

(***************************************************************************)
(* One invocation of _gen: its locals and its position.                    *)
(***************************************************************************)
NoExc == [type |-> "", text |-> <<>>, status |-> 0]
NoReply ==
    [content |-> <<>>, embed |-> None, files |-> NoFiles,
     reference |-> FALSE, replied_user |-> FALSE]
NoData == RequestData(<<>>, <<>>, <<>>)

Idle ==
    [pc |-> "idle", args |-> <<>>, model |-> None, size |-> None,
     prompt |-> <<>>, eff_model |-> <<>>, branch |-> "",
     posted |-> FALSE, post_url |-> <<>>, post_auth |-> <<>>, post_data |-> NoData,
     post_out |-> NoOutcome, json_called |-> FALSE,
     got |-> FALSE, get_url |-> <<>>, get_out |-> NoOutcome,
     exc |-> NoExc, pending |-> NoReply, sent |-> <<>>, log |-> <<>>]

\* an exception nothing in _gen catches: it leaves _gen without a reply
Uncaught(r, type) ==
    [r EXCEPT !.pc = "crashed", !.exc = [NoExc EXCEPT !.type = type]]

\* `except DiffusionError as e`: reply with its text and return
CatchDiffusionError(r, text) ==
    [r EXCEPT !.pc = "send", !.branch = "diffusion_error",
              !.exc = [NoExc EXCEPT !.type = "DiffusionError", !.text = text],
              !.pending = DiffusionErrorReply(text)]

\* `except aiohttp.ClientResponseError as e`: reply with status and message
CatchClientResponseError(r, status, message) ==
    [r EXCEPT !.pc = "send", !.branch = "http_error",
              !.exc = [type |-> "ClientResponseError", text |-> message, status |-> status],
              !.pending = HttpErrorReply(status, message)]

\* ctx.typing(), awaited first
StepStart(r, args) == [r EXCEPT !.pc = "typing", !.args = args, !.log = <<"typing">>]

\* from the argument loop to the next await: the invalid-size send, the send of
\* the unknown-model error, or session.post
StepParse(r, toks, mapping, sess) ==
    LET st == ParseArgs(r.args)
        r1 == [r EXCEPT !.model = st.model, !.size = st.size]
    IN  IF st.rejected
        THEN [r1 EXCEPT !.pc = "send", !.branch = "size_rejected",
                        !.pending = InvalidSizeReply]
        ELSE LET prompt == Prompt(st.prompt_parts)
                 size == EffectiveSize(st.size, toks)
                 model == EffectiveModel(st.model, toks)
                 r2 == [r1 EXCEPT !.prompt = prompt, !.eff_model = model]
             IN  IF ~KnownModel(model, mapping)
                 THEN CatchDiffusionError(r2, UnknownModelText(model))
                 ELSE IF sess = "closed"
                 THEN Uncaught(r2, "RuntimeError")
                 ELSE [r2 EXCEPT
                         !.pc = "post", !.posted = TRUE,
                         !.post_url = PostUrl(toks["endpoint"]),
                         !.post_auth = AuthHeader(toks),
                         !.post_data = RequestData(prompt, BackendModel(model, mapping), size),
                         !.log = Append(@, "POST")]

\* from the answer to the POST to the next await: response.json(), the status
\* check, data[0].url and session.get.  response.json() raises
\* ContentTypeError, a ClientResponseError with the response's status, on a
\* content type other than JSON, and JSONDecodeError on a malformed body
StepPost(r, out, sess) ==
    LET r1 == [r EXCEPT !.post_out = out]
        r2 == [r1 EXCEPT !.json_called = TRUE]
    IN  IF out.kind = "conn_error" THEN Uncaught(r1, "ClientConnectionError")
        ELSE IF out.ctype # JsonType
        THEN CatchClientResponseError(r2, out.status, MimeTypeMsg)
        ELSE IF out.body = "malformed" THEN Uncaught(r2, "JSONDecodeError")
        ELSE IF ~ResponseOk(out.status)
        THEN CatchDiffusionError(r2, StatusErrorText(out.status))
        ELSE IF out.body # "url_json" THEN Uncaught(r2, "KeyError")
        ELSE IF sess = "closed" THEN Uncaught(r2, "RuntimeError")
        ELSE [r2 EXCEPT !.pc = "get", !.got = TRUE, !.get_url = out.url,
                        !.log = Append(@, "GET")]

\* variant: a failed GET swallowed and the file sent with what was read
StepGet_Partial(r, out, toks) ==
    [r EXCEPT !.get_out = out, !.pc = "send", !.branch = "success",
              !.pending = SuccessReply(out.body, r.prompt, r.model, toks)]

\* from the answer to the GET to the send of the file: img_response.read() of
\* whatever status, _image_to_file and the embed
StepGet(r, out, toks) ==
    LET r1 == [r EXCEPT !.get_out = out]
    IN  IF out.kind = "conn_error" THEN Uncaught(r1, "ClientConnectionError")
        ELSE [r1 EXCEPT !.pc = "send", !.branch = "success",
                        !.pending = SuccessReply(out.body, r.prompt, r.model, toks)]

\* the awaited ctx.send completes and _gen returns
StepSend(r) ==
    [r EXCEPT !.pc = "done", !.sent = Append(@, r.pending), !.log = Append(@, "send")]

(***************************************************************************)
(* The cog: its state and its operations.                                  *)
(***************************************************************************)
VARIABLES
    lifecycle,      \* "constructed", "loaded", "load_failed" or "unloaded"
    store,          \* the bot's shared API tokens of the group "flux"
    tokens,         \* self.tokens
    load_error,     \* the text of the error cog_load raised, if any
    session,        \* self.session: "open" or "closed"
    model_mapping,  \* self.model_mapping
    inv,            \* the invocations of _gen, by number
    overlapped      \* history: the invocations that ran while another was in flight

vars == <<lifecycle, store, tokens, load_error, session, model_mapping, inv, overlapped>>

Invocations == 1..NumInv

\* variant: only the presence of the keys is tested
SetupIncomplete_AbsentOnly(toks) == \E k \in Keys : k \notin DOMAIN toks

\* the condition of initialize_tokens: a key that is absent or empty
SetupIncomplete(toks) ==
    \/ ~Truthy(Get(toks, "model"))
    \/ ~Truthy(Get(toks, "size"))
    \/ ~Truthy(Get(toks, "endpoint"))
    \/ ~Truthy(Get(toks, "key"))

\* variant: the session used as a context manager, which closes it
SessionAfterRequest_Closed(sess) == "closed"

\* self.session as _request leaves it: the requests only use it
SessionAfterRequest(sess) == sess

\* the invocations in flight beside i, and i with them, when there are any
InFlight(i) ==
    LET others == {j \in Invocations \ {i} : inv[j].pc \in {"typing", "post", "get", "send"}}
    IN  IF others = {} THEN {} ELSE others \cup {i}

\* __init__, with whatever the owner has stored
Init ==
    /\ lifecycle = "constructed"
    /\ store \in Stores
    /\ tokens = <<>>
    /\ load_error = <<>>
    /\ session = "open"
    /\ model_mapping = ModelMapping
    /\ inv = [i \in Invocations |-> Idle]
    /\ overlapped = {}

\* cog_load: initialize_tokens; when it raises, the cog is not added and its
\* command is never registered
CogLoad ==
    /\ lifecycle = "constructed"
    /\ tokens' = store
    /\ IF SetupIncomplete(store)
       THEN lifecycle' = "load_failed" /\ load_error' = SetupMsg
       ELSE lifecycle' = "loaded" /\ load_error' = <<>>
    /\ UNCHANGED <<store, session, model_mapping, inv, overlapped>>

\* cog_unload: the command is removed and the session closed
CogUnload ==
    /\ lifecycle = "loaded"
    /\ lifecycle' = "unloaded"
    /\ session' = "closed"
    /\ UNCHANGED <<store, tokens, load_error, model_mapping, inv, overlapped>>

\* a user runs the command with text `args`
Start(i, args) ==
    /\ lifecycle = "loaded"
    /\ inv[i].pc = "idle"
    /\ inv' = [inv EXCEPT ![i] = StepStart(@, args)]
    /\ overlapped' = overlapped \cup InFlight(i)
    /\ UNCHANGED <<lifecycle, store, tokens, load_error, session, model_mapping>>

Parse(i) ==
    /\ inv[i].pc = "typing"
    /\ inv' = [inv EXCEPT ![i] = StepParse(@, tokens, model_mapping, session)]
    /\ overlapped' = overlapped \cup InFlight(i)
    /\ UNCHANGED <<lifecycle, store, tokens, load_error, session, model_mapping>>

PostResponse(i, outcomes) ==
    /\ inv[i].pc = "post"
    /\ \E out \in outcomes :
           inv' = [inv EXCEPT ![i] = StepPost(@, out, session)]
    /\ overlapped' = overlapped \cup InFlight(i)
    /\ UNCHANGED <<lifecycle, store, tokens, load_error, session, model_mapping>>

GetResponse(i, outcomes) ==
    /\ inv[i].pc = "get"
    /\ \E out \in outcomes :
           inv' = [inv EXCEPT ![i] = StepGet(@, out, tokens)]
    /\ session' = SessionAfterRequest(session)
    /\ overlapped' = overlapped \cup InFlight(i)
    /\ UNCHANGED <<lifecycle, store, tokens, load_error, model_mapping>>

Send(i) ==
    /\ inv[i].pc = "send"
    /\ inv' = [inv EXCEPT ![i] = StepSend(@)]
    /\ overlapped' = overlapped \cup InFlight(i)
    /\ UNCHANGED <<lifecycle, store, tokens, load_error, session, model_mapping>>

\* concurrent invocations, each running one of the commands of ArgsConc
Next ==
    \/ CogLoad
    \/ CogUnload
    \/ \E i \in Invocations :
        \/ \E args \in ArgsConc : Start(i, args)
        \/ Parse(i)
        \/ PostResponse(i, PostOutcomesConc)
        \/ GetResponse(i, GetOutcomesConc)
        \/ Send(i)

Spec == Init /\ [][Next]_vars

\* one invocation at a time, running a command of ArgsSmall against every
\* answer of the backend
NextSeq ==
    \/ CogLoad
    \/ CogUnload
    \/ \E args \in ArgsSmall : Start(1, args)
    \/ Parse(1)
    \/ PostResponse(1, PostOutcomes)
    \/ GetResponse(1, GetOutcomes)
    \/ Send(1)

SpecSeq == Init /\ [][NextSeq]_vars

\* the argument loop of one invocation on every command of ArgsAll, up to the
\* first await after it
NextParse ==
    \/ CogLoad
    \/ \E args \in ArgsAll : Start(1, args)
    \/ Parse(1)
    \/ Send(1)

SpecParse == Init /\ [][NextParse]_vars

TypeOK ==
    /\ lifecycle \in {"constructed", "loaded", "load_failed", "unloaded"}
    /\ session \in {"open", "closed"}
    /\ \A i \in Invocations :
        inv[i].pc \in {"idle", "typing", "post", "get", "send", "done", "crashed"}

(***************************************************************************)
(* Properties.                                                             *)
(***************************************************************************)
\* the invocation has left the argument loop
Parsed(i) == inv[i].pc \notin {"idle", "typing"}

\* _gen has called _generate_image
Generating(i) == Parsed(i) /\ inv[i].branch # "size_rejected"

\* the tokens of the command text
TokensOf(i) == Split(inv[i].args, " ")

\* everything after `--size=` in a size token
WholeSizeValue(tok) == SubSeq(tok, Len(SizePrefix) + 1, Len(tok))

\* some --size= token of the text has a whole value that is not \d+x\d+
SomeSizeInvalid(i) ==
    LET toks == TokensOf(i)
    IN  \E k \in 1..Len(toks) :
            /\ StartsWith(toks[k], SizePrefix)
            /\ ~ReMatchSize(WholeSizeValue(toks[k]))

\* the model argument _generate_image resolves: the explicit one, else the default
Alias(i) == IF Truthy(inv[i].model) THEN inv[i].model.v ELSE tokens["model"]

\* what the invocation has sent or is sending
Reply(i) == inv[i].pending

\* C1: a --size=<s> token is accepted iff all of s, up to the end of the
\* token, matches ^\d+x\d+$; a rejection sends the fixed invalid-size
\* message, no attachment, and makes no POST and no GET.
C1_SizeAcceptedIffWholeValueMatches ==
    \A i \in Invocations :
        Parsed(i) =>
            /\ (inv[i].branch = "size_rejected") <=> SomeSizeInvalid(i)
            /\ inv[i].branch = "size_rejected" =>
                /\ Reply(i) = InvalidSizeReply
                /\ Reply(i).files = <<>>
                /\ ~inv[i].posted /\ ~inv[i].got
                /\ inv[i].pc \in {"send", "done"}
                /\ inv[i].pc = "done" => inv[i].sent = <<InvalidSizeReply>>

\* C2: an effective alias whose lowercase form is not a key of the alias
\* table ends in a DiffusionError whose text contains the alias, with no POST
\* and no GET, and the reply carries that text and no attachment.
C2_UnknownAliasFails ==
    \A i \in Invocations :
        (Generating(i) /\ Lower(Alias(i)) \notin DOMAIN ModelMapping) =>
            /\ inv[i].exc.type = "DiffusionError"
            /\ Contains(inv[i].exc.text, Alias(i))
            /\ ~inv[i].posted /\ ~inv[i].got
            /\ inv[i].pc \in {"send", "done"}
            /\ Contains(Reply(i).content, inv[i].exc.text)
            /\ Reply(i).files = <<>>
            /\ inv[i].pc = "done" => inv[i].sent = <<Reply(i)>>

\* an explicit unknown alias, given over a known default, has been answered
C2_Witness ==
    \E i \in Invocations :
        /\ inv[i].pc = "done"
        /\ inv[i].branch = "diffusion_error"
        /\ Lower(Alias(i)) \notin DOMAIN ModelMapping
        /\ Truthy(inv[i].model)
        /\ Lower(tokens["model"]) \in DOMAIN ModelMapping

\* C3: for an alias the table holds case-insensitively, the POST body's model
\* is the backend identifier of that alias and never the alias itself.
C3_PostCarriesBackendId ==
    \A i \in Invocations :
        (Generating(i) /\ Lower(Alias(i)) \in DOMAIN ModelMapping) =>
            /\ inv[i].pc # "crashed" => inv[i].posted
            /\ inv[i].posted =>
                /\ inv[i].post_data.model = ModelMapping[Lower(Alias(i))]
                /\ inv[i].post_data.model # Alias(i)

\* a POST went out for an alias typed in another case than the table's key
C3_Witness ==
    \E i \in Invocations :
        /\ inv[i].posted
        /\ Truthy(inv[i].model)
        /\ Alias(i) # Lower(Alias(i))

\* the text has no --model= token
NoModelToken(i) ==
    LET toks == TokensOf(i)
    IN  \A k \in 1..Len(toks) : ~StartsWith(toks[k], ModelPrefix)

\* C4: without a --model= token the model the POST is made for and the model
\* the success reply names are both the configured default model.
C4_DefaultModelUsed ==
    \A i \in Invocations :
        (Generating(i) /\ NoModelToken(i)) =>
            /\ inv[i].eff_model = tokens["model"]
            /\ inv[i].posted =>
                inv[i].post_data.model = ModelMapping[Lower(tokens["model"])]
            /\ inv[i].branch = "success" =>
                /\ Reply(i).embed.some
                /\ Reply(i).embed.v =
                      <<"P","r","o","m","p","t",":"," ">> \o inv[i].prompt \o <<";"," ","M","o","d","e","l",":"," ">>
                          \o tokens["model"] \o <<";">>

\* a command without --model= has been answered with an image
C4_Witness ==
    \E i \in Invocations :
        /\ NoModelToken(i)
        /\ inv[i].pc = "done"
        /\ inv[i].branch = "success"

\* C5: a POST answered with a non-success status, whatever its body, ends in
\* a DiffusionError with the status code and no GET made, and the reply is the
\* DiffusionError reply with the code and no attachment.  (That the body is
\* left unparsed is stated through its effect: the outcome does not depend on
\* the body.  json_called records the parse itself, which every answered POST
\* undergoes.)
C5_ErrorStatusIsDiffusionError ==
    \A i \in Invocations :
        (inv[i].post_out.kind = "response" /\ inv[i].post_out.status >= 400) =>
            /\ inv[i].exc.type = "DiffusionError"
            /\ Contains(inv[i].exc.text, Str(inv[i].post_out.status))
            /\ ~inv[i].got
            /\ inv[i].pc \in {"send", "done"}
            /\ Reply(i) = DiffusionErrorReply(inv[i].exc.text)
            /\ Reply(i).files = <<>>

\* the expected file name: every space of the prompt an underscore
Underscored(prompt) ==
    [k \in 1..Len(prompt) |-> IF prompt[k] = " " THEN "_" ELSE prompt[k]] \o <<".","p","n","g">>

\* C6: after a successful POST whose body holds data[0].url, the reply has
\* exactly one attachment: the bytes of the GET on that URL, whatever its
\* status, named after the prompt with underscores for spaces plus ".png".
C6_AttachmentIsGetBody ==
    \A i \in Invocations :
        ( /\ inv[i].post_out.kind = "response"
          /\ inv[i].post_out.status < 400
          /\ inv[i].post_out.body = "url_json"
          /\ inv[i].get_out.kind = "response" ) =>
            /\ inv[i].get_url = inv[i].post_out.url
            /\ inv[i].pc \in {"send", "done"}
            /\ Reply(i).files =
                  << [bytes |-> inv[i].get_out.body,
                      filename |-> Underscored(inv[i].prompt)] >>
            /\ inv[i].pc = "done" => inv[i].sent = <<Reply(i)>>

\* an image of a two-word prompt was delivered from a GET answered 404
C6_Witness ==
    \E i \in Invocations :
        /\ inv[i].pc = "done"
        /\ inv[i].get_out.kind = "response"
        /\ inv[i].get_out.status = 404
        /\ Len(inv[i].sent) = 1
        /\ Len(inv[i].sent[1].files) = 1
        /\ Contains(inv[i].prompt, <<" ">>)

IsOption(tok) == StartsWith(tok, ModelPrefix) \/ StartsWith(tok, SizePrefix)
NonOption(tok) == ~IsOption(tok)

\* C7: the prompt is the tokens that start with neither --model= nor --size=,
\* in their order, joined by single spaces; a text without option tokens is
\* its own prompt; and parsing a prompt gives that prompt again.
C7_PromptIsNonOptionTokens ==
    \A i \in Invocations :
        Generating(i) =>
            /\ LET toks == TokensOf(i)
               IN  /\ inv[i].prompt = Join(SelectSeq(toks, NonOption), " ")
                   /\ (\A k \in 1..Len(toks) : NonOption(toks[k])) =>
                           inv[i].prompt = inv[i].args
            /\ LET again == ParseArgs(inv[i].prompt)
               IN  /\ ~again.rejected
                   /\ again.model = None /\ again.size = None
                   /\ Prompt(again.prompt_parts) = inv[i].prompt

\* a text with an option between two words was parsed
C7_Witness ==
    \E i \in Invocations :
        /\ Generating(i)
        /\ inv[i].prompt = <<"a"," ","c","a","t">>
        /\ Len(TokensOf(i)) = 3
        /\ IsOption(TokensOf(i)[2])

\* a required key is absent from the stored group
SomeKeyMissing == \E k \in Keys : k \notin DOMAIN store

\* a required key is absent from the stored group or stored empty
SomeKeyMissingOrEmpty == \E k \in Keys : k \notin DOMAIN store \/ store[k] = <<>>

\* no invocation runs unless initialization has succeeded
NoGenerationBeforeSetup ==
    \A i \in Invocations :
        inv[i].pc # "idle" =>
            /\ lifecycle \in {"loaded", "unloaded"}
            /\ tokens = store

\* C8 as stated: initialization fails, with the remediation message, iff one
\* of the four keys is missing; no generation runs before it has succeeded.
C8_FailsIffKeyMissing ==
    /\ lifecycle # "constructed" =>
        /\ (lifecycle = "load_failed") <=> SomeKeyMissing
        /\ lifecycle = "load_failed" => load_error = SetupMsg
    /\ NoGenerationBeforeSetup

\* C8 amended: initialization fails, with the remediation message, iff one of
\* the four keys is missing or stored empty; no generation runs before it has
\* succeeded.
C8_FailsIffKeyMissingOrEmpty ==
    /\ lifecycle # "constructed" =>
        /\ (lifecycle = "load_failed") <=> SomeKeyMissingOrEmpty
        /\ lifecycle = "load_failed" => load_error = SetupMsg
        /\ lifecycle # "load_failed" => load_error = <<>>
    /\ NoGenerationBeforeSetup

\* initialization failed although all four keys are stored
C8_Witness ==
    /\ lifecycle = "load_failed"
    /\ DOMAIN store = Keys
    /\ load_error = SetupMsg

\* the orders in which an invocation may have started its awaited calls
OrderedLogs ==
    { <<>>, <<"typing">>, <<"typing", "POST">>, <<"typing", "POST", "GET">>,
      <<"typing", "POST", "GET", "send">>, <<"typing", "POST", "send">>,
      <<"typing", "send">> }

IsRequest(e) == e \in {"POST", "GET"}

C9_State ==
    \A i \in Invocations :
        /\ inv[i].log \in OrderedLogs
        /\ inv[i].got =>
            /\ inv[i].posted
            /\ inv[i].post_out.kind = "response"
            /\ inv[i].post_out.status < 400
        /\ Len(inv[i].sent) <= 1
        /\ (\E k \in 1..Len(inv[i].sent) : inv[i].sent[k].files # <<>>) =>
            /\ inv[i].post_out.kind = "response"
            /\ inv[i].get_out.kind = "response"
            /\ inv[i].log = <<"typing", "POST", "GET", "send">>
        /\ (inv[i].pc = "done"
              /\ inv[i].branch \in {"size_rejected", "diffusion_error", "http_error"}) =>
            /\ Len(inv[i].sent) = 1
            /\ inv[i].sent[1].content # <<>>
            /\ inv[i].sent[1].files = <<>>
        /\ inv[i].pc = "crashed" => inv[i].sent = <<>>

C9_Step ==
    \A i \in Invocations :
        inv[i].exc.type # "" =>
            SelectSeq(inv'[i].log, IsRequest) = SelectSeq(inv[i].log, IsRequest)

\* C9: an invocation runs parse, resolve, POST, GET, reply in that order with
\* at most one POST and one GET, the GET only after a successful POST and no
\* request after a failure; an attachment is sent only when POST and GET both
\* completed, and a size rejection or a caught error sends exactly one text
\* reply without attachment.
C9_StraightLine == [](C9_State) /\ [][C9_Step]_vars

\* an invocation whose POST was refused has sent its one text reply
C9_Witness ==
    \E i \in Invocations :
        /\ inv[i].pc = "done"
        /\ inv[i].branch = "diffusion_error"
        /\ inv[i].log = <<"typing", "POST", "send">>
        /\ Len(inv[i].sent) = 1

\* _gen run to its end on its own: the same steps in a row, with the
\* configuration as loaded, the alias table as built and the session open
RunAlone(args, post_out, get_out) ==
    LET r1 == StepParse(StepStart(Idle, args), store, ModelMapping, "open")
        r2 == IF r1.pc = "post" THEN StepPost(r1, post_out, "open") ELSE r1
        r3 == IF r2.pc = "get" THEN StepGet(r2, get_out, store) ELSE r2
    IN  IF r3.pc = "send" THEN StepSend(r3) ELSE r3

C10_State ==
    \A i \in Invocations :
        (lifecycle = "loaded" /\ inv[i].pc \in {"done", "crashed"}) =>
            inv[i] = RunAlone(inv[i].args, inv[i].post_out, inv[i].get_out)

C10_Step ==
    inv' # inv => UNCHANGED <<tokens, model_mapping, session>>

\* C10: however concurrent invocations interleave at their POST and GET, none
\* writes the configuration or the alias table or closes the session, and,
\* as long as the cog is not unloaded, each ends with the requests and the
\* reply it would have had running alone on the same text and the same
\* answers of the backend.
C10_InterleavingIsInvisible == [](C10_State) /\ [][C10_Step]_vars

\* two invocations that ran interleaved have both ended, one with an image
C10_Witness ==
    /\ lifecycle = "loaded"
    /\ \A i \in Invocations : i \in overlapped /\ inv[i].pc \in {"done", "crashed"}
    /\ \E i \in Invocations : inv[i].branch = "success" /\ inv[i].pc = "done"
    /\ \E i, j \in Invocations : inv[i].args # inv[j].args

====
